---------------------------- MODULE Spec2Model ----------------------------
(***************************************************************************)
(* A model of the UEFI bootloader's handoff pipeline:                      *)
(*   uefi-bootloader/src/main.rs  (the bootloader proper)                  *)
(*   src/main.rs                  (the earlier draft of the same main)     *)
(* The Memory, kernel and modules subsystems and the API crate are outside *)
(* these sources; where their behaviour is needed it follows the design    *)
(* document and is marked so in the comments.                              *)
(*                                                                         *)
(* Addresses are kept as byte addresses but scaled into TLC's integer      *)
(* range: only the relative layout of the regions matters.                 *)
(***************************************************************************)
EXTENDS Integers, Sequences, FiniteSets, TLC

VARIABLES
    bin,            \* which main runs: "uefi-bootloader" or "draft"
    pc,             \* position in main
    SYSTEM_TABLE,   \* static mut SYSTEM_TABLE: "Some" or "None"
    LOGGER,         \* logger::LOGGER initialised?
    firmware,       \* the firmware's state: gop, config_table, memory_map, map_size
    trace,          \* history: the steps taken, each with the firmware services it called
    panic_info,     \* the message of the panic being handled (<<>> when none)
    panic_out,      \* history: what the panic handler wrote, in order
    frame_buffer,   \* main's frame_buffer: <<>> or <<[start, size]>>
    rsdp_address,   \* main's rsdp_address: <<>> or <<address>>
    memory,         \* Memory: next_free, next_frame, page_table (<<>> before Memory::new)
    loaded,         \* results of kernel::load and modules::load
    mappings,       \* Mappings: stack_top, frame_buffer (+ the reserved stack range)
    memory_map_len, \* main's memory_map_len
    alloc,          \* BootInformationAllocation (<<>> before allocate_boot_info)
    memory_map,     \* the descriptors exit_boot_services returned
    inner,          \* MemoryDescriptorConsolidator.inner: the descriptors not yet consumed
    i,              \* main's i: regions written so far
    phys_mem,       \* physical memory written by the bootloader: address -> record
    cpu             \* the registers loaded by context_switch (<<>> before it)

vars == <<bin, pc, SYSTEM_TABLE, LOGGER, firmware, trace, panic_info, panic_out,
          frame_buffer, rsdp_address, memory, loaded, mappings, memory_map_len,
          alloc, memory_map, inner, i, phys_mem, cpu>>

---------------------------------------------------------------------------
(* Bounds of the model *)

\* longest descriptor sequence enumerated exhaustively for the consolidator
MaxDescs == 3
\* longest firmware configuration table
MaxEntries == 3
\* longest final memory map of the whole-pipeline runs (must exceed 1 + Slack)
MaxFinalDescs == 11

(* Program constants *)

PAGE_SIZE == 4096
Slack == 8
SizeOfMemoryDescriptor == 40
SizeOfMemoryRegion == 24
\* sizes and alignment of the API crate's records (outside these sources)
SizeOfModule == 80
SizeOfElfSection == 96
SizeOfBootInformation == 128
Align == 8

None == <<>>
Some(x) == <<x>>
IsSome(o) == o # <<>>
Unwrap(o) == o[1]

Min(S) == CHOOSE x \in S : \A y \in S : x <= y
Max(S) == CHOOSE x \in S : \A y \in S : x >= y
RoundUp(n, a) == ((n + a - 1) \div a) * a

---------------------------------------------------------------------------
(* UEFI memory types (uefi::table::boot::MemoryType) *)

LOADER_CODE == 1
LOADER_DATA == 2
BOOT_SERVICES_CODE == 3
BOOT_SERVICES_DATA == 4
CONVENTIONAL == 7
\* two of the types convert does not name: ACPI_RECLAIM and ACPI_NON_VOLATILE
OtherTypes == {9, 10}

Usable == [variant |-> "Usable", tag |-> 0]
UnknownUefi(t) == [variant |-> "UnknownUefi", tag |-> t]

\* the match of convert: the memory types that become Usable
ConvertsToUsableMutant(ty) == ty \in {CONVENTIONAL, LOADER_CODE, LOADER_DATA, BOOT_SERVICES_CODE}
ConvertsToUsable(ty) ==
    ty \in {CONVENTIONAL, LOADER_CODE, LOADER_DATA, BOOT_SERVICES_CODE, BOOT_SERVICES_DATA}

\* fn convert(memory_descriptor: &MemoryDescriptor) -> MemoryRegion
convert(d) ==
    [start |-> d.phys_start,
     len   |-> d.page_count * 4096,
     kind  |-> IF ConvertsToUsable(d.ty) THEN Usable ELSE UnknownUefi(d.ty)]

\* the closure given to next_if: may `next` be merged into `area`?
NextIfMutant(area, next) == (area.start + area.len) = convert(next).start
NextIf(area, next) ==
    LET n == convert(next)
    IN  area.kind = n.kind /\ (area.start + area.len) = n.start

\* area.len += next.len
ExtendMutant(area, next) == [area EXCEPT !.len = convert(next).len]
Extend(area, next) == [area EXCEPT !.len = @ + convert(next).len]

\* the while-let loop of next: absorb descriptors while next_if accepts them
AbsorbMutant(area, rest) ==
    IF rest # <<>> /\ NextIf(area, Head(rest))
    THEN [item |-> Some(Extend(area, Head(rest))), inner |-> Tail(rest)]
    ELSE [item |-> Some(area), inner |-> rest]
RECURSIVE Absorb(_, _)
Absorb(area, rest) ==
    IF rest # <<>> /\ NextIf(area, Head(rest))
    THEN Absorb(Extend(area, Head(rest)), Tail(rest))
    ELSE [item |-> Some(area), inner |-> rest]

\* MemoryDescriptorConsolidator::next: the item returned and the iterator left
ConsolidatorNext(it) ==
    IF it = <<>> THEN [item |-> None, inner |-> it]
    ELSE Absorb(convert(Head(it)), Tail(it))

\* the consolidator run to exhaustion (what `for memory_region in memory_map_iter` sees)
RECURSIVE Collect(_)
Collect(it) ==
    LET r == ConsolidatorNext(it)
    IN  IF IsSome(r.item) THEN <<Unwrap(r.item)>> \o Collect(r.inner) ELSE <<>>

---------------------------------------------------------------------------
(* Firmware configuration table and get_rsdp_address *)

ACPI2_GUID == "ACPI2_GUID"
ACPI_GUID == "ACPI_GUID"
OTHER_GUID == "SMBIOS_GUID"

\* Iterator::find on a slice iterator at position pos (1-based, Len+1 = exhausted):
\* consumes up to and including the first match, or everything when none matches
IterFind(table, pos, guid) ==
    LET hits == {k \in pos..Len(table) : table[k].guid = guid}
    IN  IF hits = {} THEN [item |-> None, pos |-> Len(table) + 1]
        ELSE [item |-> Some(table[Min(hits)]), pos |-> Min(hits) + 1]

\* fn get_rsdp_address: both finds run on the one iterator config_entries
get_rsdp_address(table) ==
    LET acpi2_rsdp == IterFind(table, 1, ACPI2_GUID)
        rsdp == IF IsSome(acpi2_rsdp.item) THEN acpi2_rsdp.item
                ELSE IterFind(table, acpi2_rsdp.pos, ACPI_GUID).item
    IN  IF IsSome(rsdp) THEN Some(Unwrap(rsdp).address) ELSE None

---------------------------------------------------------------------------
(* Pages, frames and Memory.  The memory module is outside these sources;  *)
(* these follow the design document, section 4.2.                          *)

\* Page::containing_address / Frame::containing_address: the page (frame) number
containing_address(a) == a \div PAGE_SIZE
start_address(p) == p * PAGE_SIZE

\* lo..=hi as a sequence (empty when hi < lo)
Range(lo, hi) == [k \in 1..(hi - lo + 1) |-> lo + k - 1]
\* Iterator::zip: stops with the shorter side
Zip(a, b) == [k \in 1..Min({Len(a), Len(b)}) |-> <<a[k], b[k]>>]

PRESENT == {"PRESENT"}
PRESENT_WRITABLE == {"PRESENT", "WRITABLE"}

\* where get_free_address starts handing out kernel-space ranges, and where the
\* firmware's page allocator finds free frames: both above the identity-mapped
\* low region that holds the bootloader image and the framebuffer
FreeBase == 1024 * PAGE_SIZE
FirstFreeFrame == 512

\* Memory::new: an empty page table, no frame allocated yet
NewMemory == [next_free |-> FreeBase, next_frame |-> FirstFreeFrame, page_table |-> <<>>]

\* Memory::get_free_address: an aligned range of at least `size` bytes, disjoint from
\* every earlier one (a bump pointer; ranges are packed back to back)
get_free_address(m, size) ==
    [address |-> m.next_free,
     memory  |-> [m EXCEPT !.next_free = @ + RoundUp(size, PAGE_SIZE)]]

\* Memory::allocate_frames(n): n contiguous fresh frames from the firmware
allocate_frames(m, n) ==
    [frames |-> Range(m.next_frame, m.next_frame + n - 1),
     memory |-> [m EXCEPT !.next_frame = @ + n]]

\* Memory::map: install one 4 KiB mapping; a present leaf pointing at another frame is fatal
MapOk(pt, page, frame) == page \notin DOMAIN pt \/ pt[page].frame = frame
Map(pt, page, frame, flags) == (page :> [frame |-> frame, flags |-> flags]) @@ pt

RECURSIVE MapAll(_, _, _)
MapAll(pt, pairs, flags) ==
    IF pairs = <<>> THEN [ok |-> TRUE, page_table |-> pt]
    ELSE IF ~MapOk(pt, Head(pairs)[1], Head(pairs)[2]) THEN [ok |-> FALSE, page_table |-> pt]
    ELSE MapAll(Map(pt, Head(pairs)[1], Head(pairs)[2], flags), Tail(pairs), flags)

---------------------------------------------------------------------------
(* set_up_mappings *)

STACK_SIZE == 18 * 4096

\* the first page of the stack loop: (stack_start + 1), which skips the guard page
StackFirstPageMutant(stack_start) == stack_start
StackFirstPage(stack_start) == stack_start + 1

\* stack_end: the page of end_address - 1, where end_address = stack_start_address + STACK_SIZE
StackEndMutant(stack_start_address) == containing_address(stack_start_address + STACK_SIZE)
StackEnd(stack_start_address) == containing_address(stack_start_address + STACK_SIZE - 1)

\* the pages the stack loop maps: (stack_start + 1)..=stack_end
StackPages(stack_start_address) ==
    LET stack_start == containing_address(stack_start_address)
        stack_end   == StackEnd(stack_start_address)
    IN  Range(StackFirstPage(stack_start), stack_end)

\* the (page, frame) pairs of the framebuffer loop:
\* (start_page..=end_page).zip(start_frame..=end_frame)
FrameBufferPairs(start_virtual, fb) ==
    LET start_page  == containing_address(start_virtual)
        end_page    == containing_address(start_virtual + fb.size - 1)
        start_frame == containing_address(fb.start)
        end_frame   == containing_address(fb.start + fb.size - 1)
    IN  Zip(Range(start_page, end_page), Range(start_frame, end_frame))

\* set_up_arch_specific_mappings (outside these sources): identity mappings of
\* low pages chosen by the architecture code
ArchPairs(arch_pages) == [k \in 1..Len(arch_pages) |-> <<arch_pages[k], arch_pages[k]>>]

\* fn set_up_mappings.  context_switch is the address of the trampoline function;
\* arch_pages is empty for the draft main, which has no architecture step.
\* ok is FALSE when some map call hit a page already mapped to another frame.
set_up_mappings(m, fb, context_switch, arch_pages) ==
    LET free1 == get_free_address(m, STACK_SIZE)
        stack_start_address == free1.address
        stack_end == StackEnd(stack_start_address)
        pages  == StackPages(stack_start_address)
        got    == allocate_frames(free1.memory, Len(pages))
        stack  == MapAll(got.memory.page_table, Zip(pages, got.frames), PRESENT_WRITABLE)
        tramp  == MapAll(stack.page_table,
                         <<<<containing_address(context_switch),
                             containing_address(context_switch)>>>>, PRESENT)
        free2  == IF IsSome(fb) THEN get_free_address(got.memory, Unwrap(fb).size)
                  ELSE [address |-> 0, memory |-> got.memory]
        fbmap  == IF IsSome(fb)
                  THEN MapAll(tramp.page_table, FrameBufferPairs(free2.address, Unwrap(fb)),
                              PRESENT_WRITABLE)
                  ELSE tramp
        arch   == MapAll(fbmap.page_table, ArchPairs(arch_pages), PRESENT_WRITABLE)
    IN  [ok |-> stack.ok /\ tramp.ok /\ fbmap.ok /\ arch.ok,
         memory |-> [free2.memory EXCEPT !.page_table = arch.page_table],
         mappings |-> [stack_top |-> start_address(stack_end + 1),
                       frame_buffer |-> IF IsSome(fb) THEN Some(free2.address) ELSE None,
                       \* kept for the properties: the start of the reserved stack range
                       stack_start_address |-> stack_start_address]]

---------------------------------------------------------------------------
(* allocate_boot_info *)

\* core::alloc::Layout: Layout::array and Layout::extend
LayoutArray(elem_size, n) == [size |-> elem_size * n, align |-> Align]
LayoutExtend(a, b) ==
    LET offset == RoundUp(a.size, b.align)
    IN  [layout |-> [size |-> offset + b.size, align |-> Max({a.align, b.align})],
         offset |-> offset]

\* the (page, frame) pairs of allocate_boot_info: (start_page..=end_page).zip(frames)
BootInfoPairsMutant(start_page, end_page, frames) ==
    Zip(Range(start_page, end_page), [k \in 1..Len(frames) |-> frames[Len(frames) + 1 - k]])
BootInfoPairs(start_page, end_page, frames) == Zip(Range(start_page, end_page), frames)

\* fn allocate_boot_info(memory, memory_regions_count, modules, elf_sections)
allocate_boot_info(m, memory_regions_count, modules, elf_sections) ==
    LET boot_info_layout == [size |-> SizeOfBootInformation, align |-> Align]
        ext1 == LayoutExtend(boot_info_layout,
                             LayoutArray(SizeOfMemoryRegion, memory_regions_count))
        ext2 == LayoutExtend(ext1.layout, LayoutArray(SizeOfModule, Len(modules)))
        ext3 == LayoutExtend(ext2.layout, LayoutArray(SizeOfElfSection, Len(elf_sections)))
        combined == ext3.layout
        free == get_free_address(m, combined.size)
        start_page == containing_address(free.address)
        end_page == containing_address(free.address + combined.size - 1)
        got == allocate_frames(free.memory, end_page - start_page + 1)
        boot_info_address == start_address(got.frames[1])
        mapped == MapAll(got.memory.page_table,
                         BootInfoPairs(start_page, end_page, got.frames), PRESENT_WRITABLE)
    IN  [ok |-> mapped.ok,
         memory |-> [got.memory EXCEPT !.page_table = mapped.page_table],
         alloc |-> [size |-> combined.size,
                    boot_info |-> boot_info_address,
                    memory_regions |-> [address |-> boot_info_address + ext1.offset,
                                        len |-> memory_regions_count],
                    modules |-> [address |-> boot_info_address + ext2.offset,
                                 len |-> Len(modules)],
                    elf_sections |-> [address |-> boot_info_address + ext3.offset,
                                      len |-> Len(elf_sections)],
                    kernel_mappings |-> [boot_info |-> start_address(start_page),
                                         memory_regions_offset |-> ext1.offset,
                                         modules_offset |-> ext2.offset,
                                         elf_sections_offset |-> ext3.offset]]]

---------------------------------------------------------------------------
(* kernel::load and modules::load (outside these sources; design document  *)
(* 4.3 and 4.4): what they return, and the frames and pages they take.     *)

\* kernel::load: one fresh frame per section, mapped at the section's page
kernel_load(m, sections) ==
    LET got == allocate_frames(m, Len(sections))
        pairs == [k \in 1..Len(sections) |->
                    <<containing_address(sections[k].virtual_address), got.frames[k]>>]
        mapped == MapAll(got.memory.page_table, pairs, PRESENT)
    IN  [ok |-> mapped.ok, memory |-> [got.memory EXCEPT !.page_table = mapped.page_table]]

---------------------------------------------------------------------------
(* The order of main *)

\* fn main of uefi-bootloader/src/main.rs, statement by statement
MainOrderMutant ==
    <<"entry", "get_frame_buffer", "get_rsdp_address", "Memory::new", "modules::load",
      "kernel::load", "set_up_mappings", "memory_map_storage", "allocate_boot_info",
      "exit_boot_services", "consolidate", "boot_info_fields", "context_switch">>
MainOrder ==
    <<"entry", "get_frame_buffer", "get_rsdp_address", "Memory::new", "kernel::load",
      "modules::load", "set_up_mappings", "memory_map_storage", "allocate_boot_info",
      "exit_boot_services", "consolidate", "boot_info_fields", "context_switch">>

\* fn main of the draft, src/main.rs: it stops at create_boot_info, which is todo!()
DraftOrder ==
    <<"entry", "get_frame_buffer", "Memory::new", "modules::load", "kernel::load",
      "set_up_mappings", "create_boot_info">>

Order(b) == IF b = "uefi-bootloader" THEN MainOrder ELSE DraftOrder

IndexOf(seq, x) == CHOOSE k \in 1..Len(seq) : seq[k] = x
\* the statement after `cur`; past the last one the kernel runs
NextPc(order, cur) ==
    IF IndexOf(order, cur) = Len(order) THEN "kernel" ELSE order[IndexOf(order, cur) + 1]

Advance == pc' = NextPc(Order(bin), pc) /\ UNCHANGED panic_info
\* a panic!, a failed unwrap() or expect(), or an index out of bounds
Fail(msg) == pc' = "panic" /\ panic_info' = Some(msg)
Log(step, fw) == trace' = Append(trace, [step |-> step, fw |-> fw])

---------------------------------------------------------------------------
(* The steps of main *)

\* main: SYSTEM_TABLE = Some(..); system_table.stdout().clear().expect(..)
Entry ==
    /\ pc = "entry"
    /\ SYSTEM_TABLE' = "Some"
    /\ Log("entry", {"stdout"})
    /\ \E ok \in BOOLEAN : IF ok THEN Advance ELSE Fail("failed to clear stdout")
    /\ UNCHANGED <<bin, LOGGER, firmware, panic_out, frame_buffer, rsdp_address, memory,
                   loaded, mappings, memory_map_len, alloc, memory_map, inner, i,
                   phys_mem, cpu>>

\* unsafe { SYSTEM_TABLE = None }, the statement after the logger is initialised
SystemTableAfterLoggerMutant == "Some"
SystemTableAfterLogger == "None"

\* fn get_frame_buffer: None without a graphics output protocol; a panic for
\* Bitmask and BltOnly
get_frame_buffer(gop) ==
    IF ~IsSome(gop) THEN [ok |-> TRUE, frame_buffer |-> None]
    ELSE IF Unwrap(gop).format \in {"Bitmask", "BltOnly"} THEN [ok |-> FALSE, frame_buffer |-> None]
    ELSE [ok |-> TRUE,
          frame_buffer |-> Some([start |-> Unwrap(gop).start, size |-> Unwrap(gop).size])]

\* main: get_frame_buffer, init_logger when there is a framebuffer, SYSTEM_TABLE = None
GetFrameBuffer ==
    /\ pc = "get_frame_buffer"
    /\ Log("get_frame_buffer", {"boot_services"})
    /\ LET r == get_frame_buffer(firmware.gop)
       IN  IF r.ok
           THEN /\ frame_buffer' = r.frame_buffer
                /\ LOGGER' = IsSome(r.frame_buffer)
                /\ SYSTEM_TABLE' = SystemTableAfterLogger
                /\ Advance
           ELSE /\ Fail("Bitmask and BltOnly framebuffers are not supported")
                /\ UNCHANGED <<frame_buffer, LOGGER, SYSTEM_TABLE>>
    /\ UNCHANGED <<bin, firmware, panic_out, rsdp_address, memory, loaded, mappings,
                   memory_map_len, alloc, memory_map, inner, i, phys_mem, cpu>>

\* main: let rsdp_address = get_rsdp_address(&system_table)
GetRsdpAddress ==
    /\ pc = "get_rsdp_address"
    /\ Log("get_rsdp_address", {"config_table"})
    /\ rsdp_address' = get_rsdp_address(firmware.config_table)
    /\ Advance
    /\ UNCHANGED <<bin, SYSTEM_TABLE, LOGGER, firmware, panic_out, frame_buffer, memory,
                   loaded, mappings, memory_map_len, alloc, memory_map, inner, i,
                   phys_mem, cpu>>

\* main: let mut memory = Memory::new(system_table.boot_services())
MemoryNew ==
    /\ pc = "Memory::new"
    /\ Log("Memory::new", {})
    /\ memory' = NewMemory
    /\ Advance
    /\ UNCHANGED <<bin, SYSTEM_TABLE, LOGGER, firmware, panic_out, frame_buffer,
                   rsdp_address, loaded, mappings, memory_map_len, alloc, memory_map,
                   inner, i, phys_mem, cpu>>

\* main: kernel::load(handle, &system_table, &mut memory); fatal on a missing or
\* malformed file, a failed allocation or an overlapping segment
KernelLoad ==
    /\ pc = "kernel::load"
    /\ Log("kernel::load", {"file_system", "allocate_pages"})
    /\ \E ok \in BOOLEAN :
         LET r == kernel_load(memory, firmware.kernel.sections)
         IN  IF ok /\ r.ok
             THEN /\ memory' = r.memory
                  /\ loaded' = [loaded EXCEPT !.entry_point = Some(firmware.kernel.entry_point),
                                              !.elf_sections = firmware.kernel.sections]
                  /\ Advance
             ELSE /\ Fail("failed to load kernel")
                  /\ UNCHANGED <<memory, loaded>>
    /\ UNCHANGED <<bin, SYSTEM_TABLE, LOGGER, firmware, panic_out, frame_buffer,
                   rsdp_address, mappings, memory_map_len, alloc, memory_map, inner, i,
                   phys_mem, cpu>>

\* main: modules::load(handle, &system_table)
ModulesLoad ==
    /\ pc = "modules::load"
    /\ Log("modules::load", {"file_system", "allocate_pages"})
    /\ \E ok \in BOOLEAN :
         IF ok
         THEN /\ loaded' = [loaded EXCEPT !.modules = firmware.modules]
              /\ Advance
         ELSE /\ Fail("failed to load modules")
              /\ UNCHANGED loaded
    /\ UNCHANGED <<bin, SYSTEM_TABLE, LOGGER, firmware, panic_out, frame_buffer,
                   rsdp_address, memory, mappings, memory_map_len, alloc, memory_map,
                   inner, i, phys_mem, cpu>>

\* the low pages the architecture step may identity-map
ArchChoices == {<<>>, <<24>>}

\* main: let mappings = set_up_mappings(&mut memory, &frame_buffer); fatal when
\* allocate_frame() returns None or a page is mapped twice
SetUpMappings ==
    /\ pc = "set_up_mappings"
    /\ Log("set_up_mappings", {"allocate_pages"})
    /\ \E ok \in BOOLEAN :
       \E arch_pages \in IF bin = "uefi-bootloader" THEN ArchChoices ELSE {<<>>} :
         LET r == set_up_mappings(memory, frame_buffer, firmware.context_switch, arch_pages)
         IN  IF ok /\ r.ok
             THEN /\ memory' = r.memory
                  /\ mappings' = Some(r.mappings)
                  /\ Advance
             ELSE /\ Fail("called Option::unwrap() on a None value")
                  /\ UNCHANGED <<memory, mappings>>
    /\ UNCHANGED <<bin, SYSTEM_TABLE, LOGGER, firmware, panic_out, frame_buffer,
                   rsdp_address, loaded, memory_map_len, alloc, memory_map, inner, i,
                   phys_mem, cpu>>

\* main: memory_map_size = memory_map_size().map_size + 8 * size_of::<MemoryDescriptor>()
MemoryMapSize(map_size) == map_size + Slack * SizeOfMemoryDescriptor

\* main: page_table(), the memory-map size query, the allocate_pages(..).unwrap() of
\* the memory-map storage, and memory_map_len = memory_map_size / size_of::<MemoryDescriptor>()
MemoryMapStorage ==
    /\ pc = "memory_map_storage"
    /\ Log("memory_map_storage", {"memory_map_size", "allocate_pages"})
    /\ \E ok \in BOOLEAN :
         IF ok
         THEN /\ memory_map_len' = MemoryMapSize(firmware.map_size) \div SizeOfMemoryDescriptor
              /\ Advance
         ELSE /\ Fail("called Result::unwrap() on an Err value")
              /\ UNCHANGED memory_map_len
    /\ UNCHANGED <<bin, SYSTEM_TABLE, LOGGER, firmware, panic_out, frame_buffer,
                   rsdp_address, memory, loaded, mappings, alloc, memory_map, inner, i,
                   phys_mem, cpu>>

\* main: allocate_boot_info(memory, memory_map_len, modules, elf_sections)
AllocateBootInfo ==
    /\ pc = "allocate_boot_info"
    /\ Log("allocate_boot_info", {"allocate_pages"})
    /\ \E ok \in BOOLEAN :
         LET r == allocate_boot_info(memory, memory_map_len, loaded.modules,
                                     loaded.elf_sections)
         IN  IF ok /\ r.ok
             THEN /\ memory' = r.memory
                  /\ alloc' = Some(r.alloc)
                  /\ Advance
             ELSE /\ Fail("called Option::unwrap() on a None value")
                  /\ UNCHANGED <<memory, alloc>>
    /\ UNCHANGED <<bin, SYSTEM_TABLE, LOGGER, firmware, panic_out, frame_buffer,
                   rsdp_address, loaded, mappings, memory_map_len, memory_map, inner, i,
                   phys_mem, cpu>>

\* main: system_table.exit_boot_services(handle, memory_map_storage).unwrap().1,
\* then the consolidator is built over the returned iterator and i = 0
ExitBootServices ==
    /\ pc = "exit_boot_services"
    /\ Log("exit_boot_services", {"exit_boot_services"})
    /\ \E ok \in BOOLEAN :
         IF ok
         THEN /\ firmware' = [firmware EXCEPT !.boot_services = "exited"]
              /\ memory_map' = firmware.memory_map
              /\ inner' = firmware.memory_map
              /\ i' = 0
              /\ Advance
         ELSE /\ Fail("called Result::unwrap() on an Err value")
              /\ UNCHANGED <<firmware, memory_map, inner, i>>
    /\ UNCHANGED <<bin, SYSTEM_TABLE, LOGGER, panic_out, frame_buffer, rsdp_address,
                   memory, loaded, mappings, memory_map_len, alloc, phys_mem, cpu>>

\* a write of one record through the identity mapping (physical = virtual)
Store(mem, address, type, val) == (address :> [type |-> type, val |-> val]) @@ mem
StoreAll(mem, address, size, type, seq) ==
    [a \in {address + (k - 1) * size : k \in 1..Len(seq)} |->
        [type |-> type, val |-> seq[((a - address) \div size) + 1]]] @@ mem

\* the bounds check of memory_regions_uninit[i]
InBoundsMutant(index, len) == TRUE
InBounds(index, len) == index < len

\* main: one turn of `for memory_region in memory_map_iter { .. }`: next() on the
\* consolidator, then memory_regions_uninit[i].write(memory_region); i += 1
Consolidate ==
    /\ pc = "consolidate"
    /\ Log("consolidate", {})
    /\ LET r == ConsolidatorNext(inner)
           a == Unwrap(alloc)
       IN  /\ inner' = r.inner
           /\ IF ~IsSome(r.item)
              THEN /\ Advance
                   /\ UNCHANGED <<i, phys_mem>>
              ELSE IF ~InBounds(i, a.memory_regions.len)
              THEN /\ Fail("index out of bounds")
                   /\ UNCHANGED <<i, phys_mem>>
              ELSE /\ phys_mem' = Store(phys_mem,
                                        a.memory_regions.address + i * SizeOfMemoryRegion,
                                        "MemoryRegion", Unwrap(r.item))
                   /\ i' = i + 1
                   /\ UNCHANGED <<pc, panic_info>>
    /\ UNCHANGED <<bin, SYSTEM_TABLE, LOGGER, firmware, panic_out, frame_buffer,
                   rsdp_address, memory, loaded, mappings, memory_map_len, alloc,
                   memory_map, cpu>>

\* the length of &mut memory_regions_uninit[..i]
RegionsLenMutant(written, capacity) == capacity
RegionsLen(written, capacity) == written

\* the BootInformation main writes
BootInformation(a, len) ==
    [size |-> a.size,
     frame_buffer |-> IF IsSome(Unwrap(mappings).frame_buffer)
                      THEN Some([start |-> Unwrap(Unwrap(mappings).frame_buffer),
                                 size |-> Unwrap(frame_buffer).size])
                      ELSE None,
     rsdp_address |-> rsdp_address,
     memory_regions |-> [offset |-> a.kernel_mappings.memory_regions_offset, len |-> len],
     modules |-> [offset |-> a.kernel_mappings.modules_offset, len |-> Len(loaded.modules)],
     elf_sections |-> [offset |-> a.kernel_mappings.elf_sections_offset,
                       len |-> Len(loaded.elf_sections)]]

\* main: the modules and ELF sections are copied into their arrays and the
\* BootInformation header is written
BootInfoFields ==
    /\ pc = "boot_info_fields"
    /\ Log("boot_info_fields", {})
    /\ LET a == Unwrap(alloc)
           m1 == StoreAll(phys_mem, a.modules.address, SizeOfModule, "Module", loaded.modules)
           m2 == StoreAll(m1, a.elf_sections.address, SizeOfElfSection, "ElfSection",
                          loaded.elf_sections)
       IN  phys_mem' = Store(m2, a.boot_info, "BootInformation",
                             BootInformation(a, RegionsLen(i, a.memory_regions.len)))
    /\ Advance
    /\ UNCHANGED <<bin, SYSTEM_TABLE, LOGGER, firmware, panic_out, frame_buffer,
                   rsdp_address, memory, loaded, mappings, memory_map_len, alloc,
                   memory_map, inner, i, cpu>>

\* main: the Context is built and context_switch loads cr3, rsp, rdi and jumps
ContextSwitch ==
    /\ pc = "context_switch"
    /\ Log("context_switch", {})
    /\ cpu' = Some([cr3 |-> "page_table",
                    rsp |-> Unwrap(mappings).stack_top,
                    rip |-> Unwrap(loaded.entry_point),
                    rdi |-> Unwrap(alloc).kernel_mappings.boot_info])
    /\ Advance
    /\ UNCHANGED <<bin, SYSTEM_TABLE, LOGGER, firmware, panic_out, frame_buffer,
                   rsdp_address, memory, loaded, mappings, memory_map_len, alloc,
                   memory_map, inner, i, phys_mem>>

\* draft main: the memory-map size query, then create_boot_info, which is todo!()
CreateBootInfo ==
    /\ pc = "create_boot_info"
    /\ Log("create_boot_info", {"memory_map_size"})
    /\ Fail("not yet implemented")
    /\ UNCHANGED <<bin, SYSTEM_TABLE, LOGGER, firmware, panic_out, frame_buffer,
                   rsdp_address, memory, loaded, mappings, memory_map_len, alloc,
                   memory_map, inner, i, phys_mem, cpu>>

\* the panic handler's test `if let Some(..) = unsafe { SYSTEM_TABLE }`
PanicWritesStdoutMutant(system_table) == TRUE
PanicWritesStdout(system_table) == system_table = "Some"

\* fn panic: the message goes to the firmware's stdout while SYSTEM_TABLE is Some,
\* the logger is force-unlocked and written when it was initialised, then halt()
Panic ==
    /\ pc = "panic"
    /\ Log("panic", IF PanicWritesStdout(SYSTEM_TABLE) THEN {"stdout"} ELSE {})
    /\ panic_out' = (IF PanicWritesStdout(SYSTEM_TABLE) THEN <<"stdout">> ELSE <<>>)
                    \o (IF LOGGER THEN <<"force_unlock", "logger">> ELSE <<>>)
    /\ pc' = "halted"
    /\ UNCHANGED <<bin, SYSTEM_TABLE, LOGGER, firmware, panic_info, frame_buffer,
                   rsdp_address, memory, loaded, mappings, memory_map_len, alloc,
                   memory_map, inner, i, phys_mem, cpu>>

---------------------------------------------------------------------------
(* The firmware's state at entry: the inputs of a run *)

\* the identity-mapped low region: the bootloader image and the framebuffer
ImageBase == 16 * PAGE_SIZE
FbBase == 32 * PAGE_SIZE
\* the kernel image's own virtual range
KernelBase == 2048 * PAGE_SIZE

Gop(start, size, format) == Some([start |-> start, size |-> size, format |-> format])

\* framebuffers whose start is page-aligned, one byte past, and one byte short of a
\* page boundary, with sizes around one and two pages
FbStarts == {FbBase, FbBase + 1, FbBase + 4095}
FbSizes == {1, 2, 4096, 4097, 8192}
AllGops == {None} \cup {Gop(s, n, "Rgb") : s \in FbStarts, n \in FbSizes}
PipelineGops ==
    {None, Gop(FbBase, 8192, "Bgr"), Gop(FbBase + 1, 4097, "Rgb"), Gop(FbBase, 8192, "BltOnly")}

RsdpAddresses == {ImageBase - 64, ImageBase - 32}
ConfigEntries == [guid : {ACPI2_GUID, ACPI_GUID, OTHER_GUID}, address : RsdpAddresses]
AllTables == UNION {[1..n -> ConfigEntries] : n \in 0..MaxEntries}
PipelineTables ==
    {<<>>,
     <<[guid |-> ACPI_GUID, address |-> ImageBase - 64]>>,
     <<[guid |-> OTHER_GUID, address |-> ImageBase - 64],
       [guid |-> ACPI2_GUID, address |-> ImageBase - 32]>>}

\* descriptors of one or two pages among the first three frames
DescShapes == {<<0, 1>>, <<0, 2>>, <<1, 1>>, <<2, 1>>}
DescTypes == {CONVENTIONAL, BOOT_SERVICES_DATA} \cup OtherTypes
Descriptors ==
    {[ty |-> t, phys_start |-> sh[1] * PAGE_SIZE, page_count |-> sh[2]] :
        t \in DescTypes, sh \in DescShapes}
AllMaps == UNION {[1..n -> Descriptors] : n \in 0..MaxDescs}

\* longer final maps: n one-page descriptors, back to back, their types alternating
\* between the two given (n regions when the kinds differ, one when they agree)
PatternMap(n, types) ==
    [k \in 1..n |-> [ty |-> types[(k % 2) + 1], phys_start |-> (k - 1) * PAGE_SIZE,
                     page_count |-> 1]]
FinalMaps ==
    {PatternMap(n, types) : n \in 1..MaxFinalDescs,
                            types \in {<<CONVENTIONAL, 9>>, <<CONVENTIONAL, LOADER_DATA>>}}

Text == [name |-> ".text", virtual_address |-> KernelBase, size |-> 4096, flags |-> {"R", "X"}]
Data == [name |-> ".data", virtual_address |-> KernelBase + 8192, size |-> 4096,
         flags |-> {"R", "W"}]
Kernel(sections) == [entry_point |-> KernelBase, sections |-> sections]

InitModule == [name |-> "init", start |-> 600 * PAGE_SIZE, len |-> 4096]
FsModule == [name |-> "fs.img", start |-> 601 * PAGE_SIZE, len |-> 66560]

Firmwares(gops, tables, maps, map_sizes, context_switches, kernels, modules) ==
    [gop : gops, config_table : tables, memory_map : maps, map_size : map_sizes,
     context_switch : context_switches, kernel : kernels, modules : modules,
     boot_services : {"live"}]

---------------------------------------------------------------------------
(* The whole pipeline, from the firmware's call of main *)

Init ==
    /\ bin \in {"uefi-bootloader", "draft"}
    /\ pc = "entry"
    /\ firmware \in Firmwares(PipelineGops, PipelineTables, FinalMaps,
                              {1 * SizeOfMemoryDescriptor, 2 * SizeOfMemoryDescriptor},
                              {ImageBase + 64}, {Kernel(<<Text, Data>>)},
                              {<<>>, <<InitModule, FsModule>>})
    /\ SYSTEM_TABLE = "None"
    /\ LOGGER = FALSE
    /\ trace = <<>>
    /\ panic_info = None
    /\ panic_out = <<>>
    /\ frame_buffer = None
    /\ rsdp_address = None
    /\ memory = None
    /\ loaded = [entry_point |-> None, elf_sections |-> <<>>, modules |-> <<>>]
    /\ mappings = None
    /\ memory_map_len = 0
    /\ alloc = None
    /\ memory_map = <<>>
    /\ inner = <<>>
    /\ i = 0
    /\ phys_mem = <<>>
    /\ cpu = None

Next ==
    \/ Entry
    \/ GetFrameBuffer
    \/ GetRsdpAddress
    \/ MemoryNew
    \/ KernelLoad
    \/ ModulesLoad
    \/ SetUpMappings
    \/ MemoryMapStorage
    \/ AllocateBootInfo
    \/ ExitBootServices
    \/ Consolidate
    \/ BootInfoFields
    \/ ContextSwitch
    \/ CreateBootInfo
    \/ Panic

Spec == Init /\ [][Next]_vars

---------------------------------------------------------------------------
(* get_rsdp_address alone, over every configuration table up to MaxEntries *)

InitRsdp ==
    /\ bin = "uefi-bootloader"
    /\ pc = "get_rsdp_address"
    /\ firmware \in Firmwares({None}, AllTables, {<<>>}, {SizeOfMemoryDescriptor},
                              {ImageBase + 64}, {Kernel(<<Text>>)}, {<<>>})
    /\ SYSTEM_TABLE = "None"
    /\ LOGGER = FALSE
    /\ trace = <<>>
    /\ panic_info = None
    /\ panic_out = <<>>
    /\ frame_buffer = None
    /\ rsdp_address = None
    /\ memory = None
    /\ loaded = [entry_point |-> None, elf_sections |-> <<>>, modules |-> <<>>]
    /\ mappings = None
    /\ memory_map_len = 0
    /\ alloc = None
    /\ memory_map = <<>>
    /\ inner = <<>>
    /\ i = 0
    /\ phys_mem = <<>>
    /\ cpu = None

NextRsdp == GetRsdpAddress

SpecRsdp == InitRsdp /\ [][NextRsdp]_vars

---------------------------------------------------------------------------
(* The consolidator loop alone, over every descriptor sequence up to MaxDescs: *)
(* the state is that of main right after exit_boot_services returned the map.  *)

\* main's state when the loop starts, but for the map: no framebuffer, no modules,
\* one ELF section, and room for MaxDescs + Slack regions
ConsolidatorFirmware ==
    [gop |-> None, config_table |-> <<>>, memory_map |-> <<>>,
     map_size |-> MaxDescs * SizeOfMemoryDescriptor, context_switch |-> ImageBase + 64,
     kernel |-> Kernel(<<Text>>), modules |-> <<>>, boot_services |-> "exited"]
ConsolidatorMappings ==
    set_up_mappings(kernel_load(NewMemory, <<Text>>).memory, None, ImageBase + 64, <<>>)
ConsolidatorLen == MemoryMapSize(MaxDescs * SizeOfMemoryDescriptor) \div SizeOfMemoryDescriptor
ConsolidatorAlloc ==
    allocate_boot_info(ConsolidatorMappings.memory, ConsolidatorLen, <<>>, <<Text>>)

InitConsolidator ==
    /\ bin = "uefi-bootloader"
    /\ pc = "consolidate"
    /\ memory_map \in AllMaps
    /\ firmware = [ConsolidatorFirmware EXCEPT !.memory_map = memory_map]
    /\ SYSTEM_TABLE = "None"
    /\ LOGGER = FALSE
    /\ trace = <<>>
    /\ panic_info = None
    /\ panic_out = <<>>
    /\ frame_buffer = None
    /\ rsdp_address = None
    /\ memory = ConsolidatorAlloc.memory
    /\ loaded = [entry_point |-> Some(KernelBase), elf_sections |-> <<Text>>,
                 modules |-> <<>>]
    /\ mappings = Some(ConsolidatorMappings.mappings)
    /\ memory_map_len = ConsolidatorLen
    /\ alloc = Some(ConsolidatorAlloc.alloc)
    /\ inner = memory_map
    /\ i = 0
    /\ phys_mem = <<>>
    /\ cpu = None

NextConsolidator == Consolidate

SpecConsolidator == InitConsolidator /\ [][NextConsolidator]_vars

---------------------------------------------------------------------------
(* The mappings and the boot information, from set_up_mappings to the kernel, *)
(* over every framebuffer placement: the state is that of main after           *)
(* modules::load.                                                              *)

InitMap ==
    \E f \in Firmwares(AllGops, {<<>>},
                       {PatternMap(3, <<CONVENTIONAL, 9>>),
                        PatternMap(2, <<CONVENTIONAL, LOADER_DATA>>)},
                       {1 * SizeOfMemoryDescriptor, 170 * SizeOfMemoryDescriptor},
                       {ImageBase + 64, ImageBase + PAGE_SIZE + 8},
                       {Kernel(<<Text>>), Kernel(<<Text, Data>>)},
                       {<<>>, <<InitModule>>, <<InitModule, FsModule>>}) :
      /\ bin = "uefi-bootloader"
      /\ pc = "set_up_mappings"
      /\ firmware = f
      /\ SYSTEM_TABLE = "None"
      /\ LOGGER = IsSome(f.gop)
      /\ trace = <<>>
      /\ panic_info = None
      /\ panic_out = <<>>
      /\ frame_buffer = get_frame_buffer(f.gop).frame_buffer
      /\ rsdp_address = None
      /\ memory = kernel_load(NewMemory, f.kernel.sections).memory
      /\ loaded = [entry_point |-> Some(f.kernel.entry_point),
                   elf_sections |-> f.kernel.sections, modules |-> f.modules]
      /\ mappings = None
      /\ memory_map_len = 0
      /\ alloc = None
      /\ memory_map = <<>>
      /\ inner = <<>>
      /\ i = 0
      /\ phys_mem = <<>>
      /\ cpu = None

NextMap ==
    \/ SetUpMappings
    \/ MemoryMapStorage
    \/ AllocateBootInfo
    \/ ExitBootServices
    \/ Consolidate
    \/ BootInfoFields
    \/ ContextSwitch
    \/ Panic

SpecMap == InitMap /\ [][NextMap]_vars

---------------------------------------------------------------------------
(* What the properties read *)

Done(step) == \E k \in 1..Len(trace) : trace[k].step = step
IsPrefix(a, b) == Len(a) <= Len(b) /\ SubSeq(b, 1, Len(a)) = a

\* the design document's numbering of the pipeline steps (section 5)
StepNumber(step) ==
    CASE step = "get_frame_buffer"   -> 1
      [] step = "get_rsdp_address"   -> 2
      [] step = "Memory::new"        -> 3
      [] step = "kernel::load"       -> 4
      [] step = "modules::load"      -> 5
      [] step = "set_up_mappings"    -> 6
      [] step = "allocate_boot_info" -> 7
      [] step = "memory_map_storage" -> 8
      [] step = "exit_boot_services" -> 9
      [] step = "consolidate"        -> 10
      [] step = "boot_info_fields"   -> 11
      [] step = "context_switch"     -> 12
      [] OTHER                       -> 0

\* the numbered steps of a trace, in order, each turn of the region loop counted once
RECURSIVE Steps(_)
Steps(t) ==
    IF t = <<>> THEN <<>>
    ELSE LET rest == Steps(SubSeq(t, 1, Len(t) - 1))
             n == StepNumber(t[Len(t)].step)
         IN  IF n = 0 \/ (rest # <<>> /\ rest[Len(rest)] = n) THEN rest ELSE Append(rest, n)

\* the regions main has written so far, read back from physical memory
Load(address) ==
    IF address \in DOMAIN phys_mem THEN phys_mem[address]
    ELSE [type |-> "uninit", val |-> address]
WrittenRegions ==
    [k \in 1..i |->
        Load(Unwrap(alloc).memory_regions.address + (k - 1) * SizeOfMemoryRegion).val]

\* the pipeline positions after the region loop has ended normally
LoopDone == pc \in {"boot_info_fields", "context_switch", "kernel"}

---------------------------------------------------------------------------
(* C1: the order of the pipeline steps *)

\* C1 as stated: every run that reaches the trampoline has taken the twelve steps in
\* the listed order 1, 2, ..., 12 (boot-info storage, step 7, before the memory-map
\* storage buffer, step 8).
C1_ListedOrder == pc = "kernel" => Steps(trace) = <<1, 2, 3, 4, 5, 6, 7, 8, 9, 10, 11, 12>>

\* C1 amended: every run that reaches the trampoline has taken the steps in the order
\* 1, 2, 3, 4, 5, 6, 8, 7, 9, 10, 11, 12 (the memory-map storage buffer is allocated
\* before the boot-info storage), and at every moment the steps the bootloader has
\* taken are an initial part of that order: none starts before its predecessors ended.
C1_CodeOrder ==
    /\ pc = "kernel" =>
         bin = "uefi-bootloader" /\ Steps(trace) = <<1, 2, 3, 4, 5, 6, 8, 7, 9, 10, 11, 12>>
    /\ bin = "uefi-bootloader" =>
         IsPrefix(Steps(trace), <<1, 2, 3, 4, 5, 6, 8, 7, 9, 10, 11, 12>>)

C1_Witness == pc = "kernel" /\ Len(Steps(trace)) = 12 /\ i > 1

---------------------------------------------------------------------------
(* C2: no firmware service after exit_boot_services *)

\* C2: once exit_boot_services has been called, no later step (the panic handler
\* included) calls a firmware service, and SYSTEM_TABLE is None from then on.
C2_NoFirmwareAfterExit ==
    /\ \A k \in 1..Len(trace) :
         "exit_boot_services" \in trace[k].fw =>
            \A j \in (k + 1)..Len(trace) : trace[j].fw = {}
    /\ (pc = "exit_boot_services" \/ Done("exit_boot_services")) => SYSTEM_TABLE = "None"
    /\ Done("exit_boot_services") => "stdout" \notin {panic_out[k] : k \in 1..Len(panic_out)}

\* a panic after exit_boot_services, handled to the halt
C2_Witness ==
    /\ pc = "halted"
    /\ firmware.boot_services = "exited"
    /\ panic_info = Some("index out of bounds")
    /\ LOGGER

---------------------------------------------------------------------------
(* C3: the consolidator against the reference merge *)

\* the reference: descriptor by descriptor, in firmware order, a descriptor extends the
\* last region when it has the same kind and starts where that region ends (its
\* length as extended so far), and starts a new region otherwise
RefConvert(d) ==
    [start |-> d.phys_start,
     len   |-> d.page_count * 4096,
     kind  |-> IF d.ty \in {7, 1, 2, 3, 4} THEN Usable ELSE UnknownUefi(d.ty)]
RECURSIVE RefMerge(_, _)
RefMerge(out, descs) ==
    IF descs = <<>> THEN out
    ELSE LET c == RefConvert(Head(descs))
             n == Len(out)
         IN  IF n > 0 /\ out[n].kind = c.kind /\ out[n].start + out[n].len = c.start
             THEN RefMerge([out EXCEPT ![n].len = @ + c.len], Tail(descs))
             ELSE RefMerge(Append(out, c), Tail(descs))

RECURSIVE SumLen(_)
SumLen(rs) == IF rs = <<>> THEN 0 ELSE rs[1].len + SumLen(Tail(rs))

\* C3: the regions written, followed by the reference merge of the descriptors not
\* yet consumed, are the reference merge of the whole map at every turn of the loop
\* (so the finished array is exactly the reference merge), and no descriptor's pages
\* are dropped or counted twice.
C3_ReferenceMerge ==
    (pc = "consolidate" \/ LoopDone) =>
        /\ WrittenRegions \o RefMerge(<<>>, inner) = RefMerge(<<>>, memory_map)
        /\ SumLen(WrittenRegions) + SumLen([k \in 1..Len(inner) |-> RefConvert(inner[k])])
             = SumLen([k \in 1..Len(memory_map) |-> RefConvert(memory_map[k])])
        /\ LoopDone => inner = <<>>

\* three descriptors, of which two were merged and one was not
C3_Witness ==
    /\ LoopDone
    /\ Len(memory_map) = 3
    /\ Len(WrittenRegions) = 2
    /\ \E k \in 1..2 : WrittenRegions[k].len = 3 * 4096

---------------------------------------------------------------------------
(* C4: the shape of the regions array *)

Ascending(rs) == \A k \in 1..(Len(rs) - 1) : rs[k].start < rs[k + 1].start
NoOverlap(rs) == \A k \in 1..(Len(rs) - 1) : rs[k].start + rs[k].len <= rs[k + 1].start
NoGap(rs) == \A k \in 1..(Len(rs) - 1) : rs[k].start + rs[k].len = rs[k + 1].start
KindsAlternate(rs) == \A k \in 1..(Len(rs) - 1) : rs[k].kind # rs[k + 1].kind
Converted(descs) == [k \in 1..Len(descs) |-> convert(descs[k])]

\* C4 as stated: for every descriptor sequence the finished array is in ascending
\* order of start, each region starts exactly where the previous one ends, and no
\* two adjacent regions have the same kind.
C4_AnyMap ==
    LoopDone =>
        /\ Ascending(WrittenRegions)
        /\ NoGap(WrittenRegions)
        /\ KindsAlternate(WrittenRegions)

\* C4 amended: when each firmware descriptor starts exactly where the one before it
\* ends, the finished array is ascending, each region starts where the previous one
\* ends and no two adjacent regions have the same kind; when the descriptors are only
\* ascending and non-overlapping, the array is ascending and non-overlapping and two
\* adjacent regions of the same kind are always separated by a gap.
C4_ContiguousMap ==
    LoopDone =>
        /\ NoGap(Converted(memory_map)) =>
             /\ Ascending(WrittenRegions)
             /\ NoGap(WrittenRegions)
             /\ KindsAlternate(WrittenRegions)
        /\ (Ascending(Converted(memory_map)) /\ NoOverlap(Converted(memory_map))) =>
             /\ Ascending(WrittenRegions)
             /\ NoOverlap(WrittenRegions)
             /\ \A k \in 1..(i - 1) :
                  WrittenRegions[k].kind = WrittenRegions[k + 1].kind =>
                     WrittenRegions[k].start + WrittenRegions[k].len
                        < WrittenRegions[k + 1].start

\* a contiguous map of three descriptors that ends as two regions
C4_Witness ==
    /\ LoopDone
    /\ Len(memory_map) = 3
    /\ NoGap(Converted(memory_map))
    /\ i = 2

---------------------------------------------------------------------------
(* C5: the consolidator applied to its own output *)

\* a region as a firmware descriptor of the same start, length and kind
ToDescriptor(r) ==
    [ty |-> IF r.kind = Usable THEN CONVENTIONAL ELSE r.kind.tag,
     phys_start |-> r.start,
     page_count |-> r.len \div 4096]
ToDescriptors(rs) == [k \in 1..Len(rs) |-> ToDescriptor(rs[k])]

\* C5: the finished array, turned back into descriptors of the same start, length
\* and kind and consolidated again, comes out element for element the same.
C5_Idempotent ==
    LoopDone =>
        /\ Converted(ToDescriptors(WrittenRegions)) = WrittenRegions
        /\ Collect(ToDescriptors(WrittenRegions)) = WrittenRegions

\* a chain of three descriptors merged into one region of three pages, fed back
C5_Witness ==
    /\ LoopDone
    /\ Len(memory_map) = 3
    /\ i = 1
    /\ WrittenRegions[1].len = 3 * 4096

---------------------------------------------------------------------------
(* C6: get_rsdp_address *)

HasGuid(table, guid) == \E k \in 1..Len(table) : table[k].guid = guid
AddressOf(table, guid) == {Some(table[k].address) : k \in {n \in 1..Len(table) : table[n].guid = guid}}

\* C6: after get_rsdp_address, rsdp_address is the address of an ACPI 2.0 entry when
\* the table has one; without an ACPI 2.0 entry but with an ACPI 1.0 entry it is that
\* entry's address, wherever the entry sits; it is None only when the table has neither.
C6_Fallback ==
    Done("get_rsdp_address") =>
        LET table == firmware.config_table
        IN  /\ HasGuid(table, ACPI2_GUID) => rsdp_address \in AddressOf(table, ACPI2_GUID)
            /\ (~HasGuid(table, ACPI2_GUID) /\ HasGuid(table, ACPI_GUID)) =>
                  rsdp_address \in AddressOf(table, ACPI_GUID)
            /\ rsdp_address = None =>
                  (~HasGuid(table, ACPI2_GUID) /\ ~HasGuid(table, ACPI_GUID))

---------------------------------------------------------------------------
(* C7: the stack's guard page *)

PageTable == memory.page_table
Mapped(p) == p \in DOMAIN PageTable
\* the pages of the range reserved for the stack: from the page of the address
\* get_free_address returned up to, not including, the page of stack_top
StackRange ==
    containing_address(Unwrap(mappings).stack_start_address)
        .. (containing_address(Unwrap(mappings).stack_top) - 1)
GuardPage == containing_address(Unwrap(mappings).stack_start_address)

\* C7: from the return of set_up_mappings to the context switch, the first page of
\* the reserved stack range is the only one of its pages that is not mapped, it lies
\* immediately below the lowest mapped stack page, and every page above it up to
\* stack_top is mapped PRESENT | WRITABLE to a freshly allocated frame of its own.
C7_GuardPage ==
    IsSome(mappings) =>
        /\ ~Mapped(GuardPage)
        /\ {p \in StackRange : ~Mapped(p)} = {GuardPage}
        /\ Mapped(GuardPage + 1)
        /\ \A p \in StackRange \ {GuardPage} :
             /\ Mapped(p)
             /\ PageTable[p].flags = PRESENT_WRITABLE
             /\ PageTable[p].frame \in FirstFreeFrame..(memory.next_frame - 1)
             /\ \A q \in DOMAIN PageTable : q # p => PageTable[q].frame # PageTable[p].frame

\* the kernel is entered with a framebuffer mapped, the architecture's page mapped
\* and the boot information mapped, all after the stack
C7_Witness ==
    /\ pc = "kernel"
    /\ IsSome(Unwrap(mappings).frame_buffer)
    /\ Mapped(24)
    /\ Mapped(containing_address(Unwrap(cpu).rdi))

---------------------------------------------------------------------------
(* C8: the boot information read back by the kernel *)

\* a walk of the page table the kernel was handed
Translate(v) ==
    IF Mapped(containing_address(v))
    THEN Some(start_address(PageTable[containing_address(v)].frame) + (v % PAGE_SIZE))
    ELSE None
\* a read of `size` bytes at virtual address v: the record stored where v is backed,
\* provided the bytes of the record are backed contiguously
KernelRead(v, size) ==
    LET first == Translate(v)
        last  == Translate(v + size - 1)
    IN  IF IsSome(first) /\ IsSome(last) /\ Unwrap(last) = Unwrap(first) + size - 1
        THEN Load(Unwrap(first))
        ELSE [type |-> "fault", val |-> v]
\* an array read as (base + offset, len)
KernelReadArray(base, ref, size) ==
    [k \in 1..ref.len |-> KernelRead(base + ref.offset + (k - 1) * size, size)]
Records(type, seq) == [k \in 1..Len(seq) |-> [type |-> type, val |-> seq[k]]]

\* C8: in the kernel, the header read at the pointer in rdi and the three arrays read
\* as (pointer + stored offset, stored count) through the page table are the records
\* written: the consolidator's regions (their count, not the capacity), the modules
\* and the ELF sections, in order; page k of the virtual range is backed by frame k
\* of the allocation.
C8_RoundTrip ==
    pc = "kernel" =>
        LET base == Unwrap(cpu).rdi
            header == KernelRead(base, SizeOfBootInformation)
            a == Unwrap(alloc)
        IN  /\ header.type = "BootInformation"
            /\ header.val.memory_regions.len = Len(Collect(memory_map))
            /\ KernelReadArray(base, header.val.memory_regions, SizeOfMemoryRegion)
                 = Records("MemoryRegion", Collect(memory_map))
            /\ KernelReadArray(base, header.val.modules, SizeOfModule)
                 = Records("Module", firmware.modules)
            /\ KernelReadArray(base, header.val.elf_sections, SizeOfElfSection)
                 = Records("ElfSection", firmware.kernel.sections)
            /\ \A k \in 0..(a.size - 1) : Translate(base + k) = Some(a.boot_info + k)

\* a boot information of two pages, with its modules and ELF sections on the second
C8_Witness ==
    /\ pc = "kernel"
    /\ Unwrap(alloc).kernel_mappings.modules_offset >= PAGE_SIZE
    /\ Len(loaded.modules) = 2
    /\ Len(loaded.elf_sections) = 2
    /\ i = 3

---------------------------------------------------------------------------
(* C9: the framebuffer mapping *)

\* C9: with a framebuffer, once set_up_mappings has returned every physical frame
\* that intersects [start, start + size) is mapped PRESENT | WRITABLE at consecutive
\* pages of the returned virtual range, in order, none left out.
C9_FrameBufferCovered ==
    (IsSome(mappings) /\ IsSome(frame_buffer)) =>
        LET fb == Unwrap(frame_buffer)
            first_page == containing_address(Unwrap(Unwrap(mappings).frame_buffer))
            first_frame == containing_address(fb.start)
            last_frame == containing_address(fb.start + fb.size - 1)
        IN  \A f \in first_frame..last_frame :
              /\ Mapped(first_page + (f - first_frame))
              /\ PageTable[first_page + (f - first_frame)]
                   = [frame |-> f, flags |-> PRESENT_WRITABLE]

---------------------------------------------------------------------------
(* C10: more regions than the reserved capacity *)

InArray(address, array, size) ==
    /\ array.address <= address
    /\ address + size <= array.address + array.len * size
Cells(type) == {a \in DOMAIN phys_mem : phys_mem[a].type = type}

\* C10: a region is only ever written inside the memory-regions array; a run whose
\* consolidator yields more regions than the capacity panics (index out of bounds) at
\* the first region past the capacity and never reaches the rest of the pipeline; a
\* run that gets past the loop has written every region, and the header carries
\* their full count.
C10_Overflow ==
    IsSome(alloc) =>
        LET a == Unwrap(alloc)
            regions == Collect(memory_map)
        IN  /\ \A c \in Cells("MemoryRegion") : InArray(c, a.memory_regions, SizeOfMemoryRegion)
            /\ \A c \in Cells("Module") : InArray(c, a.modules, SizeOfModule)
            /\ \A c \in Cells("ElfSection") : InArray(c, a.elf_sections, SizeOfElfSection)
            /\ a.memory_regions.len = memory_map_len
            /\ i <= a.memory_regions.len
            /\ LoopDone =>
                 /\ Len(regions) <= a.memory_regions.len
                 /\ WrittenRegions = regions
            /\ pc = "kernel" => Load(a.boot_info).val.memory_regions.len = Len(regions)
            /\ panic_info = Some("index out of bounds") =>
                 /\ Len(regions) > a.memory_regions.len
                 /\ i = a.memory_regions.len
            /\ (Done("consolidate") /\ Len(regions) > a.memory_regions.len) =>
                 pc \in {"consolidate", "panic", "halted"}
            /\ (Done("consolidate") /\ Len(regions) <= a.memory_regions.len) =>
                 pc \notin {"panic", "halted"}

\* the consolidator yielded more regions than the capacity and the bootloader halted
C10_Witness ==
    /\ pc = "halted"
    /\ IsSome(alloc)
    /\ panic_info = Some("index out of bounds")
    /\ Len(Collect(memory_map)) > memory_map_len
    /\ i = memory_map_len

---------------------------------------------------------------------------
(* C11: the panic path while boot services are live *)

\* the step whose failure the panic handler handled: the last one before "panic"
PanicStep == trace[Len(trace) - 1].step
\* the steps main takes while SYSTEM_TABLE is Some: up to its SYSTEM_TABLE = None
ConsoleSteps == {"entry", "get_frame_buffer"}

\* C11 as stated: a panic at any step at which boot services are still live writes
\* the message to the firmware console first, then force-unlocks and writes the
\* logger when one was initialised, then halts.
C11_ConsoleWhileLive ==
    (pc = "halted" /\ firmware.boot_services = "live") =>
        panic_out = <<"stdout">> \o (IF LOGGER THEN <<"force_unlock", "logger">> ELSE <<>>)

\* C11 amended: the panic path writes the message to the firmware console only when
\* the failed step is one main takes before it clears SYSTEM_TABLE (the console
\* clear, get_frame_buffer); a panic at any later step, boot services live or not,
\* writes nothing to the console.  In both cases it then force-unlocks and writes the
\* logger when one was initialised, and halts: the panic handler is the last step
\* taken, and the pipeline never reaches the kernel.
C11_PanicPath ==
    /\ pc = "halted" =>
         /\ IsSome(panic_info)
         /\ trace[Len(trace)].step = "panic"
         /\ panic_out = (IF PanicStep \in ConsoleSteps THEN <<"stdout">> ELSE <<>>)
                        \o (IF LOGGER THEN <<"force_unlock", "logger">> ELSE <<>>)
         /\ PanicStep \in ConsoleSteps => (SYSTEM_TABLE = "Some" /\ ~LOGGER)
         /\ cpu = None
    /\ Done("panic") => pc = "halted"
    /\ pc = "panic" => (panic_out = <<>> /\ ~Done("panic"))

\* a failed kernel load with boot services live and the logger initialised: the
\* message reaches the logger only
C11_Witness ==
    /\ pc = "halted"
    /\ firmware.boot_services = "live"
    /\ PanicStep = "kernel::load"
    /\ LOGGER
    /\ panic_out = <<"force_unlock", "logger">>

---------------------------------------------------------------------------
(* C12: the size of the stack *)

\* the pages of the reserved stack range that are mapped
StackMapped == {p \in StackRange : Mapped(p)}

\* C12 as stated: eighteen stack pages are mapped above the guard page, stack_top
\* minus the start of the lowest mapped stack page is STACK_SIZE, and stack_top is
\* the first address past the last mapped stack page.
C12_EighteenPages ==
    IsSome(mappings) =>
        /\ Cardinality(StackMapped) = 18
        /\ Unwrap(mappings).stack_top - start_address(Min(StackMapped)) = STACK_SIZE
        /\ Unwrap(mappings).stack_top = start_address(Max(StackMapped) + 1)

\* C12 amended: the reservation is STACK_SIZE = 18 * 4096 bytes in all, its first
\* page being the guard page: from the address get_free_address returned to stack_top
\* there are STACK_SIZE bytes, exactly 17 pages of them are mapped, each to a freshly
\* allocated frame of its own, stack_top minus the start of the lowest mapped stack
\* page is STACK_SIZE - 4096, and stack_top is the first address past the last mapped
\* stack page; the kernel is entered with its stack pointer at stack_top.
C12_SeventeenPages ==
    IsSome(mappings) =>
        /\ Unwrap(mappings).stack_top - Unwrap(mappings).stack_start_address = STACK_SIZE
        /\ Unwrap(mappings).stack_start_address = start_address(GuardPage)
        /\ Cardinality(StackMapped) = 17
        /\ Cardinality({PageTable[p].frame : p \in StackMapped}) = 17
        /\ \A p \in StackMapped :
             PageTable[p].frame \in FirstFreeFrame..(memory.next_frame - 1)
        /\ Min(StackMapped) = GuardPage + 1
        /\ Unwrap(mappings).stack_top - start_address(Min(StackMapped)) = STACK_SIZE - 4096
        /\ Unwrap(mappings).stack_top = start_address(Max(StackMapped) + 1)
        /\ pc = "kernel" => Unwrap(cpu).rsp = Unwrap(mappings).stack_top

\* set_up_mappings has returned without a framebuffer and the kernel runs on the stack
C12_Witness ==
    /\ pc = "kernel"
    /\ ~IsSome(Unwrap(mappings).frame_buffer)
    /\ Unwrap(cpu).rsp = start_address(GuardPage + 18)
    /\ Mapped(GuardPage + 17)
    /\ ~Mapped(GuardPage)

=============================================================================
